---------------------------- MODULE Spec2Model ----------------------------
(***************************************************************************)
(* A model of src/tasks.py: the news search robot (minimal_task) and the   *)
(* helpers it is built from (DateCalculator, ExcelCreator, FoxNewsSearch). *)
(*                                                                         *)
(* Strings are sequences of one-character strings, so that formatting,     *)
(* lower(), split() and the regular expression act on characters.          *)
(* Dates are records [y, m, d] of the proleptic Gregorian calendar.        *)
(***************************************************************************)
EXTENDS Integers, Sequences, FiniteSets, TLC

VARIABLES
    pc,              \* position in minimal_task ("idle" in the function specs)
    payload,         \* the work item payload: [hasMonth, Month, Phrase]
    now,             \* datetime.now() as read at line 145
    window,          \* <<start_date, actual_date>> of line 152, <<>> before
    clicks,          \* ids of the list options clicked at lines 188-199
    page,            \* the browser page: "none", "open", "closed"
    loadMoreHidden,  \* the site: whether the 'Load More' control is hidden
    loadClicks,      \* 'Load More' clicks made so far (saturating counter)
    driverBound,     \* whether the global name driver is bound (line 227)
    iBinding,        \* the global name i of lines 252, 255: [bound, val]
    articles,        \* the elements line 227 found
    idx,             \* number of articles whose loop body has completed
    sheet,           \* ExcelCreator.sheet: the appended rows, header first
    downloads,       \* filenames download_image was called with, in order
    files,           \* files written under ROBOT_ARTIFACTS
    saves,           \* number of completed save_file calls
    error,           \* the exception that ended the run, "" if none
    arg,             \* function specs: the arguments of the call
    res              \* function specs: the result, <<>> before the call

vars == <<pc, payload, now, window, clicks, page, loadMoreHidden, loadClicks,
          driverBound, iBinding, articles, idx, sheet, downloads, files,
          saves, error, arg, res>>

taskVars == <<pc, payload, now, window, clicks, page, loadMoreHidden,
              loadClicks, driverBound, iBinding, articles, idx, sheet,
              downloads, files, saves, error>>

-----------------------------------------------------------------------------
(* Bounds of the model.                                                    *)

MaxMonthsBack == 14
MaxTextLen == 5
MaxPhraseLen == 3
MaxPieces == 4
MaxArticles == 2
MaxMonth == 3
MaxClicks == 2

-----------------------------------------------------------------------------
(* Strings.                                                                *)

Digits == <<"0", "1", "2", "3", "4", "5", "6", "7", "8", "9">>

\* str(n) for an integer n >= 0
RECURSIVE StrNat(_)
StrNat(n) == IF n < 10 THEN <<Digits[n + 1]>>
             ELSE StrNat(n \div 10) \o <<Digits[(n % 10) + 1]>>

\* str(n), f"{n}"
RECURSIVE Str(_)
Str(n) == IF n < 0 THEN <<"-">> \o StrNat(0 - n) ELSE StrNat(n)

\* lines 158-161: f"0{n}" if n < 10 else str(n)
Format00(n) == IF n < 10 THEN <<"0">> \o Str(n) ELSE Str(n)

-----------------------------------------------------------------------------
(* Calendar: datetime and timedelta as far as calculate uses them.         *)

IsLeap(y) == (y % 4 = 0 /\ y % 100 # 0) \/ y % 400 = 0

DaysIn(y, m) == IF m = 2 THEN (IF IsLeap(y) THEN 29 ELSE 28)
                ELSE IF m \in {4, 6, 9, 11} THEN 30 ELSE 31

Date(y, m, d) == [y |-> y, m |-> m, d |-> d]

\* the last day of the month before date's month
EndOfPreviousMonth(date) ==
    IF date.m = 1 THEN Date(date.y - 1, 12, 31)
    ELSE Date(date.y, date.m - 1, DaysIn(date.y, date.m - 1))

\* date - timedelta(days=k), k >= 0
RECURSIVE MinusDays(_, _)
MinusDays(date, k) ==
    IF k < date.d THEN Date(date.y, date.m, date.d - k)
    ELSE MinusDays(EndOfPreviousMonth(date), k - date.d)

\* date <= other
DateLeq(date, other) ==
    \/ date.y < other.y
    \/ date.y = other.y /\ date.m < other.m
    \/ date.y = other.y /\ date.m = other.m /\ date.d <= other.d

\* the loop of lines 29-30: range(months) is empty for months <= 0
RECURSIVE StepBack(_, _)
StepBack(start_date, months) ==
    IF months <= 0 THEN start_date
    ELSE StepBack(MinusDays(start_date, start_date.d), months - 1)

\* DateCalculator.calculate(actual_date, months), lines 25-31
calculate(actual_date, months) ==
    <<StepBack(Date(actual_date.y, actual_date.m, 1), months), actual_date>>


-----------------------------------------------------------------------------
(* Characters: what str.lower, str.split and the re module see.            *)

Lowercase == <<"a", "b", "c", "d", "e", "f", "g", "h", "i", "j", "k", "l", "m",
               "n", "o", "p", "q", "r", "s", "t", "u", "v", "w", "x", "y", "z">>
Uppercase == <<"A", "B", "C", "D", "E", "F", "G", "H", "I", "J", "K", "L", "M",
               "N", "O", "P", "Q", "R", "S", "T", "U", "V", "W", "X", "Y", "Z">>

IsUpper(c) == \E k \in 1..26 : Uppercase[k] = c
IsLetter(c) == \E k \in 1..26 : Uppercase[k] = c \/ Lowercase[k] = c
IsDigit(c) == \E k \in 1..10 : Digits[k] = c
IsSpace(c) == c \in {" ", "\t", "\n"}
\* \w of the re module
IsWordChar(c) == IsLetter(c) \/ IsDigit(c) \/ c = "_"

LowerChar(c) == IF IsUpper(c)
                THEN Lowercase[CHOOSE k \in 1..26 : Uppercase[k] = c]
                ELSE c

\* str.lower()
lower(s) == [k \in 1..Len(s) |-> LowerChar(s[k])]

\* str.split(): the maximal runs of non-whitespace characters, in order
RECURSIVE SplitAcc(_, _, _)
SplitAcc(s, word, out) ==
    IF s = <<>> THEN (IF word = <<>> THEN out ELSE Append(out, word))
    ELSE IF IsSpace(Head(s))
         THEN SplitAcc(Tail(s), <<>>, IF word = <<>> THEN out ELSE Append(out, word))
         ELSE SplitAcc(Tail(s), Append(word, Head(s)), out)

split(s) == SplitAcc(s, <<>>, <<>>)

\* the Python slice s[lo:hi] for 0 <= lo
Slice(s, lo, hi) == SubSeq(s, lo + 1, IF hi < Len(s) THEN hi ELSE Len(s))

\* the generator of lines 112-115, for i in range(i, stop)
RECURSIVE CountMatches(_, _, _, _)
CountMatches(text_words, phrase_words, i, stop) ==
    IF i >= stop THEN 0
    ELSE (IF Slice(text_words, i, i + Len(phrase_words)) = phrase_words THEN 1 ELSE 0)
         + CountMatches(text_words, phrase_words, i + 1, stop)

\* a counter that skips past each match it finds
RECURSIVE CountDisjoint(_, _, _)
CountDisjoint(text_words, phrase_words, i) ==
    IF i + Len(phrase_words) > Len(text_words) \/ phrase_words = <<>> THEN 0
    ELSE IF Slice(text_words, i, i + Len(phrase_words)) = phrase_words
         THEN 1 + CountDisjoint(text_words, phrase_words, i + Len(phrase_words))
         ELSE CountDisjoint(text_words, phrase_words, i + 1)

\* variant of phrase_counter that does not lower-case the phrase
phrase_counter_case_sensitive(text, phrase) ==
    CountMatches(split(lower(text)), split(phrase), 0,
                 Len(split(lower(text))) - Len(split(phrase)) + 1)

\* variant of phrase_counter that skips over each occurrence it finds
phrase_counter_disjoint(text, phrase) ==
    CountDisjoint(split(lower(text)), split(lower(phrase)), 0)

\* FoxNewsSearch.phrase_counter(text, phrase), lines 106-115
phrase_counter(text, phrase) ==
    CountMatches(split(lower(text)), split(lower(phrase)), 0,
                 Len(split(lower(text))) - Len(split(lower(phrase))) + 1)

-----------------------------------------------------------------------------
(* The regular expression of line 121,                                     *)
(*     \$[\d,]+(?:\.\d+)?|\b\d+\s*(?:dollars|USD)\b                        *)
(* Positions are 1-based; a match is described by the set of positions at  *)
(* which it can end.                                                       *)

At(t, p) == IF p \in 1..Len(t) THEN t[p] ELSE ""

\* \b before position p
WordBoundary(t, p) == IsWordChar(At(t, p - 1)) # IsWordChar(At(t, p))

HasWordAt(t, p, w) == p + Len(w) - 1 <= Len(t) /\ SubSeq(t, p, p + Len(w) - 1) = w

Dollars == <<"d", "o", "l", "l", "a", "r", "s">>
USD == <<"U", "S", "D">>

\* [\d,]+ from p
GroupedDigitsEnds(t, p) ==
    {q \in p..Len(t) : \A k \in p..q : IsDigit(t[k]) \/ t[k] = ","}

\* \d+ from p
DigitsEnds(t, p) == {q \in p..Len(t) : \A k \in p..q : IsDigit(t[k])}

\* \s* from p: the positions before which the next part can start
AfterSpaces(t, p) ==
    {s \in p..(Len(t) + 1) : \A k \in p..(s - 1) : IsSpace(t[k])}

\* (?:\.\d+)? from p, after a part that ended at p - 1
FractionEnds(t, p) ==
    {p - 1} \cup (IF At(t, p) = "." THEN DigitsEnds(t, p + 1) ELSE {})

\* \$[\d,]+(?:\.\d+)? from p
DollarAmountEnds(t, p) ==
    IF At(t, p) = "$"
    THEN UNION {FractionEnds(t, q + 1) : q \in GroupedDigitsEnds(t, p + 1)}
    ELSE {}

\* \b\d+\s*(?:dollars|USD)\b from p
NumberWordEnds(t, p) ==
    IF WordBoundary(t, p)
    THEN {e \in p..Len(t) :
            \E q \in DigitsEnds(t, p) : \E s \in AfterSpaces(t, q + 1) :
              \E w \in {Dollars, USD} :
                HasWordAt(t, s, w) /\ e = s + Len(w) - 1 /\ WordBoundary(t, e + 1)}
    ELSE {}

\* FoxNewsSearch.contains_money(text), lines 118-122
contains_money(text) ==
    \E p \in 1..Len(text) :
        DollarAmountEnds(text, p) # {} \/ NumberWordEnds(text, p) # {}

-----------------------------------------------------------------------------
(* The functions on their own: the arguments are drawn in the initial      *)
(* state and one action makes the call; minimal_task is not running.       *)

NoPayload == [hasMonth |-> FALSE, Month |-> 0, Phrase |-> <<>>]
NoDate == Date(1, 1, 1)
NoBinding == [bound |-> FALSE, val |-> 0]

TaskIdle ==
    /\ pc = "idle" /\ payload = NoPayload /\ now = NoDate /\ window = <<>>
    /\ clicks = <<>> /\ page = "none" /\ loadMoreHidden = FALSE
    /\ loadClicks = 0 /\ driverBound = FALSE /\ iBinding = NoBinding
    /\ articles = <<>> /\ idx = 0 /\ sheet = <<>> /\ downloads = <<>>
    /\ files = {} /\ saves = 0 /\ error = ""

\* the strings of length at most n over the characters cs
StringsUpTo(cs, n) == UNION {[1..k -> cs] : k \in 0..n}

\* reference dates: every day of two years, one of them a leap year
ReferenceDates ==
    {date \in [y : {2023, 2024}, m : 1..12, d : 1..31] :
        date.d <= DaysIn(date.y, date.m)}

InitDate ==
    /\ TaskIdle
    /\ arg \in [actual_date : ReferenceDates, months : 0..MaxMonthsBack]
    /\ res = <<>>

ApplyCalculate ==
    /\ res = <<>>
    /\ res' = <<calculate(arg.actual_date, arg.months)>>
    /\ UNCHANGED <<taskVars, arg>>

SpecDate == InitDate /\ [][ApplyCalculate]_vars

\* words "a", "aa", "aA", ... in upper and lower case, separated by blanks
WordChars == {"a", "A", " "}

InitPhrase ==
    /\ TaskIdle
    /\ arg \in [text : StringsUpTo(WordChars, MaxTextLen),
                phrase : StringsUpTo(WordChars, MaxPhraseLen)]
    /\ res = <<>>

ApplyPhraseCounter ==
    /\ res = <<>>
    /\ res' = <<phrase_counter(arg.text, arg.phrase)>>
    /\ UNCHANGED <<taskVars, arg>>

SpecPhrase == InitPhrase /\ [][ApplyPhraseCounter]_vars

\* texts put together from the pieces the expression distinguishes
Pieces == {<<"$">>, <<"5">>, <<",">>, <<".">>, <<" ">>, <<"a">>, USD, Dollars}

RECURSIVE Flatten(_)
Flatten(ps) == IF ps = <<>> THEN <<>> ELSE Head(ps) \o Flatten(Tail(ps))

MoneyTexts == {Flatten(ps) : ps \in StringsUpTo(Pieces, MaxPieces)}

InitMoney ==
    /\ TaskIdle
    /\ arg \in [text : MoneyTexts]
    /\ res = <<>>

ApplyContainsMoney ==
    /\ res = <<>>
    /\ res' = <<contains_money(arg.text)>>
    /\ UNCHANGED <<taskVars, arg>>

SpecMoney == InitMoney /\ [][ApplyContainsMoney]_vars

-----------------------------------------------------------------------------
(* minimal_task, lines 131-268.                                            *)
(*                                                                         *)
(* tasks.py assigns neither the name driver (line 227) nor the name i      *)
(* (lines 252, 255): both are looked up in the module's globals when the   *)
(* line runs, and raise NameError unless whatever loaded the module put    *)
(* them there.  driverBound and iBinding are that namespace.               *)
(* Line 261 is indented by three columns; it is read as the statement      *)
(* that follows the for loop.                                              *)

\* datetime.now() of the runs considered
TaskDates == {Date(2024, 3, 15), Date(2026, 1, 5), Date(2026, 11, 4)}

\* the work items considered; hasMonth = FALSE: the payload has no 'Month'
Payloads ==
    [hasMonth : {TRUE}, Month : (-1)..MaxMonth,
     Phrase : {<<"a">>, <<"a", " ", "A">>}]
    \cup [hasMonth : {FALSE}, Month : {0}, Phrase : {<<"a">>}]

\* what the page can show in an article container; complete = FALSE: one
\* of the elements of lines 233-236 is missing
ArticleKinds ==
    { [title |-> <<"a", " ", "a", " ", "a">>, date |-> <<"1", "d">>,
       description |-> <<"$", "5">>, complete |-> TRUE],
      [title |-> <<"A">>, date |-> <<"2", "d">>,
       description |-> <<"5">>, complete |-> TRUE],
      [title |-> <<"a">>, date |-> <<>>,
       description |-> <<>>, complete |-> FALSE] }

\* response.status_code
Statuses == {200, 404}

Headers == <<"Title", "Date", "Description", "Picture Filename",
             "Count of Search Phrases", "Contains Money">>

DataXlsx == <<"d", "a", "t", "a", ".", "x", "l", "s", "x">>

\* f"img_{i}.jpg"
ImageName(i) == <<"i", "m", "g", "_">> \o Str(i) \o <<".", "j", "p", "g">>

Init ==
    /\ pc = "start"
    /\ payload \in Payloads
    /\ now \in TaskDates
    /\ window = <<>> /\ clicks = <<>> /\ page = "none"
    /\ loadMoreHidden = FALSE /\ loadClicks = 0
    /\ driverBound \in BOOLEAN
    /\ iBinding \in {NoBinding} \cup [bound : {TRUE}, val : 0..1]
    /\ articles = <<>> /\ idx = 0 /\ sheet = <<>> /\ downloads = <<>>
    /\ files = {} /\ saves = 0 /\ error = ""
    /\ arg = <<>> /\ res = <<>>

\* an exception leaves minimal_task: nothing catches it, nothing is undone
Raise(exc) ==
    /\ pc' = "failed"
    /\ error' = exc
    /\ UNCHANGED <<payload, now, window, clicks, page, loadMoreHidden,
                   loadClicks, driverBound, iBinding, articles, idx, sheet,
                   downloads, files, saves, arg, res>>

\* lines 136-169: the payload, the validation and the date range
ReadPayload ==
    /\ pc = "start"
    /\ \/ /\ ~payload.hasMonth            \* '0' < 0
          /\ Raise("TypeError")
       \/ /\ payload.hasMonth /\ payload.Month < 0
          /\ pc' = "returned"
          /\ UNCHANGED <<payload, now, window, clicks, page, loadMoreHidden,
                         loadClicks, driverBound, iBinding, articles, idx,
                         sheet, downloads, files, saves, error, arg, res>>
       \/ /\ payload.hasMonth /\ payload.Month >= 0
          /\ window' = calculate(now, payload.Month - 1)
          /\ pc' = "goto"
          /\ UNCHANGED <<payload, now, clicks, page, loadMoreHidden,
                         loadClicks, driverBound, iBinding, articles, idx,
                         sheet, downloads, files, saves, error, arg, res>>

\* lines 172-174: the secret and browser.goto
Goto ==
    /\ pc = "goto"
    /\ \/ Raise("Error")
       \/ /\ page' = "open"
          /\ pc' = "search"
          /\ UNCHANGED <<payload, now, window, clicks, loadMoreHidden,
                         loadClicks, driverBound, iBinding, articles, idx,
                         sheet, downloads, files, saves, error, arg, res>>

\* lines 178-181: click, fill, click
Search ==
    /\ pc = "search"
    /\ \/ Raise("TimeoutError")
       \/ /\ pc' = "date_range"
          /\ UNCHANGED <<payload, now, window, clicks, page, loadMoreHidden,
                         loadClicks, driverBound, iBinding, articles, idx,
                         sheet, downloads, files, saves, error, arg, res>>

\* lines 153-161 and 188-199: the ids of the options clicked, in order:
\* from month, day, year, then to month, day, year
DateOptions(start_date, actual_date) ==
    LET past_month == start_date.m
        past_year == start_date.y
        current_month == actual_date.m
        current_day == actual_date.d
        current_year == actual_date.y
        year_index == (current_year - past_year) + 1
    IN  <<Format00(past_month), <<"0", "1">>, <<"2", "0", "2", "4">>,
          Format00(current_month), Format00(current_day), Format00(year_index)>>

\* lines 187-199: each option is clicked after its list is opened; a click
\* that finds no element raises and leaves the earlier ones made
SelectDateRange ==
    /\ pc = "date_range"
    /\ LET options == DateOptions(window[1], window[2])
       IN  \/ /\ \E k \in 0..(Len(options) - 1) : clicks' = SubSeq(options, 1, k)
              /\ pc' = "failed"
              /\ error' = "TimeoutError"
           \/ /\ clicks' = options
              /\ pc' = "start_search"
              /\ error' = error
    /\ UNCHANGED <<payload, now, window, page, loadMoreHidden, loadClicks,
                   driverBound, iBinding, articles, idx, sheet, downloads,
                   files, saves, arg, res>>

\* lines 203-204: the Search link; the site shows the first results
StartSearch ==
    /\ pc = "start_search"
    /\ \/ Raise("TimeoutError")
       \/ /\ loadMoreHidden' \in BOOLEAN
          /\ pc' = "load_more"
          /\ UNCHANGED <<payload, now, window, clicks, page, loadClicks,
                         driverBound, iBinding, articles, idx, sheet,
                         downloads, files, saves, error, arg, res>>

\* variant of LoadMoreAgain that gives up after MaxClicks clicks
LoadMoreAgain_capped(hidden, made) == ~hidden /\ made < MaxClicks

\* line 207: the condition of the while loop
LoadMoreAgain(hidden, made) == ~hidden

\* line 207: page.is_hidden decides between the body and the exit
TestLoadMore ==
    /\ pc = "load_more"
    /\ pc' = IF LoadMoreAgain(loadMoreHidden, loadClicks) THEN "click_more"
             ELSE "read_count"
    /\ UNCHANGED <<payload, now, window, clicks, page, loadMoreHidden,
                   loadClicks, driverBound, iBinding, articles, idx, sheet,
                   downloads, files, saves, error, arg, res>>

\* lines 208-209: the click; the site loads more and keeps or hides the
\* control.  loadClicks stops counting at MaxClicks, the loop does not stop.
ClickLoadMore ==
    /\ pc = "click_more"
    /\ \/ Raise("TimeoutError")
       \/ /\ loadClicks' = IF loadClicks < MaxClicks THEN loadClicks + 1
                           ELSE loadClicks
          /\ loadMoreHidden' \in BOOLEAN
          /\ pc' = "load_more"
          /\ UNCHANGED <<payload, now, window, clicks, page, driverBound,
                         iBinding, articles, idx, sheet, downloads, files,
                         saves, error, arg, res>>

\* lines 217-218: int(page.inner_text(...)), used for the log only
ReadCount ==
    /\ pc = "read_count"
    /\ \/ Raise("TimeoutError")
       \/ Raise("ValueError")
       \/ /\ pc' = "create_excel"
          /\ UNCHANGED <<payload, now, window, clicks, page, loadMoreHidden,
                         loadClicks, driverBound, iBinding, articles, idx,
                         sheet, downloads, files, saves, error, arg, res>>

\* ExcelCreator.create_headers and add_row, lines 42-50: sheet.append
append(rows, data) == Append(rows, data)

\* lines 222-224: ExcelCreator('data.xlsx') and its headers
CreateExcel ==
    /\ pc = "create_excel"
    /\ sheet' = append(<<>>, Headers)
    /\ pc' = "find_articles"
    /\ UNCHANGED <<payload, now, window, clicks, page, loadMoreHidden,
                   loadClicks, driverBound, iBinding, articles, idx,
                   downloads, files, saves, error, arg, res>>

\* line 227: driver.find_elements
FindArticles ==
    /\ pc = "find_articles"
    /\ \/ /\ ~driverBound
          /\ Raise("NameError")
       \/ /\ driverBound
          /\ articles' \in UNION {[1..n -> ArticleKinds] : n \in 0..MaxArticles}
          /\ pc' = "articles"
          /\ UNCHANGED <<payload, now, window, clicks, page, loadMoreHidden,
                         loadClicks, driverBound, iBinding, idx, sheet,
                         downloads, files, saves, error, arg, res>>

\* variant of download_image that writes the body whatever the status
download_image_unchecked(written, filename, status_code) ==
    written \cup {filename}

\* FoxNewsSearch.download_image, lines 91-103, once the response is there:
\* the files under ROBOT_ARTIFACTS afterwards
download_image(written, filename, status_code) ==
    IF status_code = 200 THEN written \cup {filename} ELSE written

\* lines 245-249 and 255: the row of an article
RowOf(article, phrase_to_search, filename) ==
    <<article.title, article.date, article.description, filename,
      phrase_counter(article.title, phrase_to_search)
          + phrase_counter(article.description, phrase_to_search),
      contains_money(article.title \o article.description)>>

\* lines 230-258: one pass of the loop body, for articles[idx + 1]
ProcessArticle ==
    /\ pc = "articles"
    /\ idx < Len(articles)
    /\ LET article == articles[idx + 1]
       IN  \/ /\ ~article.complete
              /\ Raise("NoSuchElementException")
           \/ /\ article.complete /\ ~iBinding.bound
              /\ Raise("NameError")
           \/ /\ article.complete /\ iBinding.bound
              \* requests.get raises: the fetch was attempted, status 0
              /\ downloads' = Append(downloads,
                     [filename |-> ImageName(iBinding.val), status |-> 0])
              /\ pc' = "failed"
              /\ error' = "RequestException"
              /\ UNCHANGED <<payload, now, window, clicks, page,
                             loadMoreHidden, loadClicks, driverBound,
                             iBinding, articles, idx, sheet, files, saves,
                             arg, res>>
           \/ /\ article.complete /\ iBinding.bound
              /\ \E status_code \in Statuses :
                    /\ downloads' = Append(downloads,
                           [filename |-> ImageName(iBinding.val),
                            status |-> status_code])
                    /\ files' = download_image(files, ImageName(iBinding.val),
                                               status_code)
              /\ sheet' = append(sheet, RowOf(article, payload.Phrase,
                                              ImageName(iBinding.val)))
              /\ idx' = idx + 1
              /\ UNCHANGED <<pc, payload, now, window, clicks, page,
                             loadMoreHidden, loadClicks, driverBound,
                             iBinding, articles, saves, error, arg, res>>

\* variant of LoopOver that leaves the loop after its first pass
LoopOver_first_only(done, found) == done >= 1 \/ done = Len(found)

\* line 230: the for loop has gone through every element of articles
LoopOver(done, found) == done = Len(found)

\* lines 261-265 and ExcelCreator.save_file, lines 52-57
SaveFile ==
    /\ pc = "articles"
    /\ LoopOver(idx, articles)
    /\ \/ Raise("OSError")
       \/ /\ files' = files \cup {DataXlsx}
          /\ saves' = saves + 1
          /\ pc' = "close"
          /\ UNCHANGED <<payload, now, window, clicks, page, loadMoreHidden,
                         loadClicks, driverBound, iBinding, articles, idx,
                         sheet, downloads, error, arg, res>>

\* lines 267-268
ClosePage ==
    /\ pc = "close"
    /\ page' = "closed"
    /\ pc' = "done"
    /\ UNCHANGED <<payload, now, window, clicks, loadMoreHidden, loadClicks,
                   driverBound, iBinding, articles, idx, sheet, downloads,
                   files, saves, error, arg, res>>

Next ==
    \/ ReadPayload \/ Goto \/ Search \/ SelectDateRange \/ StartSearch
    \/ TestLoadMore \/ ClickLoadMore \/ ReadCount \/ CreateExcel
    \/ FindArticles \/ ProcessArticle \/ SaveFile \/ ClosePage

Spec == Init /\ [][Next]_vars

\* minimal_task is one sequential run: its next statement is always taken
FairSpec == Spec /\ WF_vars(Next)

-----------------------------------------------------------------------------
(* C1: calculate                                                           *)

\* the first day of the month k months before date's month
FirstOfMonthBack(date, k) ==
    LET n == date.y * 12 + (date.m - 1) - k
    IN  Date(n \div 12, (n % 12) + 1, 1)

\* C1: for every reference date and every monthsBack >= 0, calculate returns
\* (start, end) with start <= end, start's day-of-month 1 and start the
\* first day of the month monthsBack months before the reference month.
C1_StartIsFirstOfMonthBack ==
    res # <<>> =>
        LET start == res[1][1]
            end == res[1][2]
        IN  /\ DateLeq(start, end)
            /\ start.d = 1
            /\ start = FirstOfMonthBack(arg.actual_date, arg.months)

-----------------------------------------------------------------------------
(* C2, C8: phrase_counter, stated on the text itself.                      *)

\* the positions at which a word of s starts: a non-blank character that
\* is the first of s or follows a blank
WordStarts(s) ==
    {a \in 1..Len(s) : ~IsSpace(s[a]) /\ (a = 1 \/ IsSpace(At(s, a - 1)))}

\* the position at which the word that starts at a ends
WordEnd(s, a) ==
    CHOOSE b \in a..Len(s) :
        /\ \A k \in a..b : ~IsSpace(s[k])
        /\ b = Len(s) \/ IsSpace(At(s, b + 1))

NumWords(s) == Cardinality(WordStarts(s))

\* the words of s in order: the n-th has n - 1 word starts before its own
Words(s) ==
    LET starts == WordStarts(s)
    IN  [n \in 1..Cardinality(starts) |->
            LET a == CHOOSE x \in starts :
                         Cardinality({o \in starts : o < x}) = n - 1
            IN  SubSeq(s, a, WordEnd(s, a))]

SameIgnoringCase(v, w) ==
    Len(v) = Len(w) /\ \A k \in 1..Len(v) : LowerChar(v[k]) = LowerChar(w[k])

\* the start positions i (0-based) at which phrase's words occur in text's
OccurrenceStarts(text, phrase) ==
    LET tw == Words(text)
        pw == Words(phrase)
    IN  {i \in 0..(Len(tw) - Len(pw)) :
            \A j \in 1..Len(pw) : SameIgnoringCase(tw[i + j], pw[j])}

\* C2: phrase_counter returns the number of start positions at which the
\* lower-cased words of the phrase occur contiguously among the lower-cased
\* words of the text (whole words, not substrings), and 0 when the phrase
\* has more words than the text.
C2_CountsWordSequenceStarts ==
    (res # <<>> /\ arg.phrase # <<>>) =>
        /\ res[1] = Cardinality(OccurrenceStarts(arg.text, arg.phrase))
        /\ NumWords(arg.phrase) > NumWords(arg.text) => res[1] = 0

\* 'aa A' and 'a': a word that contains the phrase's word without being it,
\* and a match that differs in case
C2_Witness ==
    /\ res = <<1>>
    /\ arg.text = <<"a", "a", " ", "A">>
    /\ arg.phrase = <<"a">>

\* the most occurrences that can be taken without overlap, given the start
\* positions and the phrase's number of words n: scanning from the left and
\* skipping each occurrence taken
RECURSIVE DisjointFrom(_, _, _)
DisjointFrom(starts, n, i) ==
    IF \A x \in starts : x < i THEN 0
    ELSE IF i \in starts THEN 1 + DisjointFrom(starts, n, i + n)
         ELSE DisjointFrom(starts, n, i + 1)

NonOverlapping(text, phrase) ==
    DisjointFrom(OccurrenceStarts(text, phrase), NumWords(phrase), 0)

\* two occurrences share a word
Overlapping(starts, n) == \E x, z \in starts : x < z /\ z < x + n

\* C8 as stated: the count is the number of non-overlapping occurrences.
C8_CountsNonOverlapping ==
    (res # <<>> /\ NumWords(arg.phrase) > 0) =>
        res[1] = NonOverlapping(arg.text, arg.phrase)

\* C8 amended: phrase_counter counts once per start position, so its result
\* is never below the number of non-overlapping occurrences and is above it
\* exactly when two occurrences overlap.
C8_CountsEveryStart ==
    (res # <<>> /\ NumWords(arg.phrase) > 0) =>
        LET starts == OccurrenceStarts(arg.text, arg.phrase)
            n == NumWords(arg.phrase)
            disjoint == DisjointFrom(starts, n, 0)
        IN  /\ res[1] >= disjoint
            /\ (res[1] > disjoint) <=> Overlapping(starts, n)

\* phrase 'a a' in text 'a a a': two starts, one non-overlapping occurrence
C8_Witness ==
    /\ res = <<2>>
    /\ arg.text = <<"a", " ", "a", " ", "a">>
    /\ arg.phrase = <<"a", " ", "a">>
    /\ NonOverlapping(arg.text, arg.phrase) = 1

-----------------------------------------------------------------------------
(* C3: contains_money                                                      *)

\* a '$' immediately followed by a digit
DollarThenDigit(t) == \E p \in 1..Len(t) : t[p] = "$" /\ IsDigit(At(t, p + 1))

\* a number standing on its own (a maximal run of digits not glued to a
\* word character before it), then optional blanks, then 'dollars' or 'USD'
\* ending at a word boundary
NumberThenCurrencyWord(t) ==
    \E a \in 1..Len(t) : \E b \in a..Len(t) :
        /\ \A k \in a..b : IsDigit(t[k])
        /\ ~IsWordChar(At(t, a - 1)) /\ ~IsDigit(At(t, b + 1))
        /\ \E s \in (b + 1)..(Len(t) + 1) :
              /\ \A k \in (b + 1)..(s - 1) : IsSpace(t[k])
              /\ \E w \in {Dollars, USD} :
                    HasWordAt(t, s, w) /\ ~IsWordChar(At(t, s + Len(w)))

\* C3: contains_money is true if and only if the text has a '$' immediately
\* followed by at least one digit, or a bare number followed by 'dollars' or
\* 'USD' as a whole word; a '$' with no digit after it does not count.
C3_MoneyIffCurrencyAmount ==
    res # <<>> =>
        (res[1] <=> (DollarThenDigit(arg.text) \/ NumberThenCurrencyWord(arg.text)))

-----------------------------------------------------------------------------
(* C4, C5: the article loop                                                *)

\* C4: the k-th article in discovery order (k = 0, 1, ...) is downloaded to
\* img_k.jpg and its row names img_k.jpg; the loop body does not fail on the
\* index, and a run that gets through N articles has made N fetches.
C4_SequentialImageNames ==
    /\ \A k \in 1..Len(downloads) : downloads[k].filename = ImageName(k - 1)
    /\ \A k \in 2..Len(sheet) : sheet[k][4] = ImageName(k - 2)
    /\ ~(pc = "failed" /\ error = "NameError" /\ articles # <<>>)
    /\ pc \in {"close", "done"} => Len(downloads) = Len(articles)

\* a step in which download_image got a response that is not a 200
Non200Step ==
    /\ Len(downloads') = Len(downloads) + 1
    /\ downloads'[Len(downloads')].status \notin {0, 200}

\* C5: a response that is not a 200 writes no file and raises nothing: the
\* run goes on, the article's row is appended with the filename that was
\* asked for, and the loop stands at the next article.
C5_Non200IsNotFatal ==
    [][Non200Step =>
          /\ files' = files
          /\ error' = error /\ pc' = "articles"
          /\ sheet' # sheet /\ SubSeq(sheet', 1, Len(sheet)) = sheet
          /\ Len(sheet') = Len(sheet) + 1
          /\ sheet'[Len(sheet')][4] = downloads'[Len(downloads')].filename
          /\ idx' = idx + 1]_vars

\* two articles, both images refused: both rows are there, no image is,
\* and the run has finished
C5_Witness ==
    /\ pc = "done"
    /\ Len(downloads) = 2
    /\ downloads[1].status = 404 /\ downloads[2].status = 404
    /\ Len(sheet) = 3
    /\ files = {DataXlsx}

-----------------------------------------------------------------------------
(* C6: the page                                                            *)

\* C6: a run that has opened the page has closed it by the time it ends,
\* on normal completion and on a fatal error alike.
C6_PageReleasedAtEnd ==
    pc \in {"done", "failed", "returned"} => page # "open"

-----------------------------------------------------------------------------
(* C7: the report                                                          *)

\* C7: the report is saved at most once and only when every article found
\* has its row; a run that returns on a negative Month has opened no page,
\* fetched no image and made no row, and neither it nor a run that fails
\* has written the report.
C7_SavedOnceAfterAllRows ==
    /\ saves <= 1
    /\ (DataXlsx \in files) <=> (saves = 1)
    /\ saves = 1 =>
          /\ idx = Len(articles)
          /\ Len(sheet) = Len(articles) + 1
          /\ pc \in {"close", "done"}
    /\ pc = "returned" =>
          page = "none" /\ downloads = <<>> /\ sheet = <<>> /\ files = {}
    /\ pc = "failed" => DataXlsx \notin files

\* a run over two articles that has saved its three rows
C7_Witness ==
    /\ pc = "done" /\ saves = 1
    /\ Len(articles) = 2 /\ Len(sheet) = 3
    /\ DataXlsx \in files

-----------------------------------------------------------------------------
(* C9: the date filter                                                     *)

\* C9: the options clicked are the two-digit month, the two-digit day and
\* the four-digit year of the window's start, then those of its end.
C9_ClicksAreWindowDates ==
    pc = "start_search" =>
        LET start == window[1]
            end == window[2]
        IN  clicks = <<Format00(start.m), Format00(start.d), Str(start.y),
                       Format00(end.m), Format00(end.d), Str(end.y)>>

-----------------------------------------------------------------------------
(* C10: the 'Load More' loop                                               *)

InLoadMoreLoop == pc \in {"load_more", "click_more"}

\* C10: the control is clicked only right after it was seen not hidden; the
\* loop has no cap and is left for the result count only when the control
\* is seen hidden (the one other way out is the click raising); nothing of
\* the extraction starts inside the loop; and once the control is hidden
\* when the loop tests it, the run reaches the result count.
C10_LoadMoreLoop ==
    /\ [](pc = "click_more" => ~loadMoreHidden)
    /\ [](InLoadMoreLoop => sheet = <<>> /\ articles = <<>> /\ downloads = <<>>)
    /\ []((pc = "load_more" /\ ~loadMoreHidden) =>
              ENABLED (TestLoadMore /\ pc' = "click_more"))
    /\ [][/\ pc' = "click_more" => (pc = "load_more" /\ ~loadMoreHidden)
          /\ loadClicks' # loadClicks => pc = "click_more"
          /\ pc' = "read_count" => (pc = "load_more" /\ loadMoreHidden)
          /\ InLoadMoreLoop =>
                \/ InLoadMoreLoop'
                \/ pc' = "read_count"
                \/ pc = "click_more" /\ pc' = "failed"]_vars
    /\ (pc = "load_more" /\ loadMoreHidden) ~> (pc = "read_count")

\* the loop about to click again after MaxClicks clicks
C10_Witness ==
    pc = "click_more" /\ loadClicks = MaxClicks /\ ~loadMoreHidden

=============================================================================
